---- MODULE Spec2Model ----
(***************************************************************************)
(* The System F interpreter of compiler/src/ast/interp.rs as a state       *)
(* machine.  A session owns one Snapshot<Store>; eval_expr, eval_decl and  *)
(* eval_prog are its operations.  eval is the recursive big-step evaluator *)
(* of the source, written as a recursive operator that threads the         *)
(* snapshot stack and a log of the calls of eval.                          *)
(***************************************************************************)
EXTENDS Integers, Sequences, FiniteSets

VARIABLES store, lastOp, result, evalLog, bindLog, retLog, progLog, pc, nOps

vars == <<store, lastOp, result, evalLog, bindLog, retLog, progLog, pc, nOps>>

(***************************************************************************)
(* Bounds of the model.                                                    *)
(***************************************************************************)
\* number of operations of one session
MaxOps == 2
\* nesting depth of eval calls the call stack admits
MaxDepth == 12

(***************************************************************************)
(* The AST (crate::ast::ast, used by interp.rs): types, patterns,          *)
(* expressions.                                                            *)
(***************************************************************************)
TInt == [tag |-> "TInt"]
TBool == [tag |-> "TBool"]
TArrow(a, b) == [tag |-> "TArrow", dom |-> a, cod |-> b]
TProd(ts) == [tag |-> "TProd", parts |-> ts]
TVar(t) == [tag |-> "TVar", tvar |-> t]
TForall(t, b) == [tag |-> "TForall", tvar |-> t, tbody |-> b]

Wildcard(t) == [tag |-> "Wildcard", typ |-> t]
Binding(id, t) == [tag |-> "Binding", id |-> id, typ |-> t]
PTuple(ps) == [tag |-> "PTuple", patterns |-> ps]

Integer(n) == [tag |-> "Con", kind |-> "Integer", n |-> n]
Boolean(b) == [tag |-> "Con", kind |-> "Boolean", b |-> b]
Var(id) == [tag |-> "Var", id |-> id]
Let(pat, exp, body) == [tag |-> "Let", pat |-> pat, exp |-> exp, body |-> body]
EApp(exp, arg) == [tag |-> "EApp", exp |-> exp, arg |-> arg]
TApp(exp, targ) == [tag |-> "TApp", exp |-> exp, targ |-> targ]
Tuple(entries) == [tag |-> "Tuple", entries |-> entries]
Binop(lhs, op, rhs) == [tag |-> "Binop", lhs |-> lhs, op |-> op, rhs |-> rhs]
Lambda(var, typ, body) == [tag |-> "Lambda", var |-> var, typ |-> typ, body |-> body]
Any(tvar, body) == [tag |-> "Any", tvar |-> tvar, body |-> body]
If(cond, branch_t, branch_f) ==
    [tag |-> "If", cond |-> cond, branch_t |-> branch_t, branch_f |-> branch_f]

IntOps == {"Add", "Sub", "Mul", "Eq", "Lt", "Gt", "Ne"}
BoolOps == {"And", "Or"}

(***************************************************************************)
(* Store: one frame, two hash maps.  A map is a function whose domain is   *)
(* the set of keys present.                                                *)
(***************************************************************************)
EmptyMap == [k \in {} |-> TInt]
insert(map, k, v) == [n \in DOMAIN map \cup {k} |-> IF n = k THEN v ELSE map[n]]
Store(vals, typs) == [val_store |-> vals, typ_store |-> typs]
DefaultStore == Store(EmptyMap, EmptyMap)

(***************************************************************************)
(* Snapshot<Store> (crate::util::persistent): a stack of frames, the last  *)
(* element being the top.                                                  *)
(***************************************************************************)
SnapshotDefault == <<DefaultStore>>
SnapshotNew(frame) == <<frame>>
current(st) == st[Len(st)]
enter(st) == Append(st, current(st))
CanExeunt(st) == Len(st) > 1
exeunt(st) == SubSeq(st, 1, Len(st) - 1)
setCurrent(st, frame) == [st EXCEPT ![Len(st)] = frame]

get_val(frame, key) ==
    IF key \in DOMAIN frame.val_store
    THEN [some |-> TRUE, value |-> frame.val_store[key]]
    ELSE [some |-> FALSE, value |-> Boolean(FALSE)]

(***************************************************************************)
(* Pattern predicates and the free-variable predicate.                     *)
(***************************************************************************)
RECURSIVE PatBindings(_)
PatBindings(pat) ==
    CASE pat.tag = "Wildcard" -> {}
      [] pat.tag = "Binding" -> {pat.id}
      [] pat.tag = "PTuple" ->
            UNION {PatBindings(pat.patterns[i]) : i \in DOMAIN pat.patterns}

contains_var(pat, var) == var \in PatBindings(pat)

RECURSIVE fv(_, _)
fv(var, e) ==
    CASE e.tag = "Con" -> FALSE
      [] e.tag = "Var" -> e.id = var
      [] e.tag = "Let" ->
            fv(var, e.exp) \/ (~contains_var(e.pat, var) /\ fv(var, e.body))
      [] e.tag = "EApp" -> fv(var, e.exp) \/ fv(var, e.arg)
      [] e.tag = "TApp" -> fv(var, e.exp)
      [] e.tag = "Tuple" -> \E i \in DOMAIN e.entries : fv(var, e.entries[i])
      [] e.tag = "Binop" -> fv(var, e.lhs) \/ fv(var, e.rhs)
      [] e.tag = "Lambda" -> (e.var # var) /\ fv(var, e.body)
      [] e.tag = "Any" -> fv(var, e.body)
      [] e.tag = "If" ->
            fv(var, e.cond) \/ fv(var, e.branch_t) \/ fv(var, e.branch_f)

(***************************************************************************)
(* The evaluator.  A machine state m holds the snapshot stack st and three  *)
(* records of what has run so far: log, the eval calls, each with the      *)
(* stack it was entered with; binds, the bind_pat calls, each with its     *)
(* arguments and the stack it was entered with; rets, the eval calls that  *)
(* returned, each with the stack depth at its entry and at its return.  A  *)
(* call returns the machine state it leaves, the value, and a status:      *)
(* "ok", "panic" (why names the panic site) or "overflow" (the call stack  *)
(* is exhausted).                                                          *)
(***************************************************************************)
Machine(st, log) == [st |-> st, log |-> log, binds |-> <<>>, rets |-> <<>>]
Ok(m, res) == [m |-> m, res |-> res, status |-> "ok", why |-> "none"]
Panic(m, site) == [m |-> m, res |-> Var("?"), status |-> "panic", why |-> site]
Overflow(m) == [m |-> m, res |-> Var("?"), status |-> "overflow", why |-> "stack"]
Logged(m, e) == [m EXCEPT !.log = Append(@, [expr |-> e, st |-> m.st])]
LoggedBind(m, exp, pat) ==
    [m EXCEPT !.binds = Append(@, [exp |-> exp, pat |-> pat, st |-> m.st])]
Returned(r, e, depth) ==
    IF r.status = "ok"
    THEN [r EXCEPT !.m.rets =
             Append(@, [expr |-> e, res |-> r.res, din |-> depth, dout |-> Len(r.m.st)])]
    ELSE r

MinLen(s, t) == IF Len(s) < Len(t) THEN Len(s) ELSE Len(t)

IsInteger(v) == v.tag = "Con" /\ v.kind = "Integer"
IsBoolean(v) == v.tag = "Con" /\ v.kind = "Boolean"

\* lines 138-170: both operands integer constants, else the stuck node.
\* The arithmetic is that of the mathematical integers: the inputs below stay
\* far from the limits of the machine integer of Constant::Integer.
IntBinop(l, op, r) ==
    IF IsInteger(l) /\ IsInteger(r)
    THEN CASE op = "Add" -> Integer(l.n + r.n)
           [] op = "Sub" -> Integer(l.n - r.n)
           [] op = "Mul" -> Integer(l.n * r.n)
           [] op = "Eq" -> Boolean(l.n = r.n)
           [] op = "Lt" -> Boolean(l.n < r.n)
           [] op = "Gt" -> Boolean(l.n > r.n)
           [] op = "Ne" -> Boolean(l.n # r.n)
    ELSE Binop(l, op, r)

\* lines 175-191: both operands boolean constants, else the stuck node
BoolBinop(l, op, r) ==
    IF IsBoolean(l) /\ IsBoolean(r)
    THEN CASE op = "And" -> Boolean(l.b /\ r.b)
           [] op = "Or" -> Boolean(l.b \/ r.b)
    ELSE Binop(l, op, r)

\* lines 108-110: the parameter is inserted into the current frame
BindParam(st, var, typ, param) ==
    setCurrent(st, Store(insert(current(st).val_store, var, param),
                         insert(current(st).typ_store, var, typ)))

\* line 120: the type variable is inserted into the current frame
BindTypeParam(st, tvar, targ) ==
    setCurrent(st, Store(current(st).val_store,
                         insert(current(st).typ_store, tvar, targ)))

\* BindName as it would be if an existing binding of the name were kept
BindName_keepExisting(st, id, typ, value) ==
    IF id \in DOMAIN current(st).val_store THEN st
    ELSE setCurrent(st, Store(insert(current(st).val_store, id, value),
                              insert(current(st).typ_store, id, typ)))

\* lines 243-245: a binding pattern inserts value and declared type
BindName(st, id, typ, value) ==
    setCurrent(st, Store(insert(current(st).val_store, id, value),
                         insert(current(st).typ_store, id, typ)))

RECURSIVE eval(_, _, _), bind_pat(_, _, _, _), BindEntries(_, _, _, _, _),
          EvalEntries(_, _, _, _, _), BindEntries_mirrored(_, _, _, _, _)

EvalVar(m, e) ==
    LET found == get_val(current(m.st), e.id)
    IN IF found.some THEN Ok(m, found.value) ELSE Panic(m, "Var")

EvalLet_enterFirst(m, e, d) ==
    LET r1 == eval([m EXCEPT !.st = enter(@)], e.exp, d - 1)
    IN IF r1.status # "ok" THEN r1 ELSE
       LET r2 == bind_pat(r1.res, e.pat, r1.m, d - 1)
       IN IF r2.status # "ok" THEN r2 ELSE
          LET r3 == eval(r2.m, e.body, d - 1)
          IN IF r3.status # "ok" THEN r3
             ELSE IF ~CanExeunt(r3.m.st) THEN Panic(r3.m, "exeunt")
             ELSE Ok([r3.m EXCEPT !.st = exeunt(@)], r3.res)

EvalLet_noExeunt(m, e, d) ==
    LET r1 == eval(m, e.exp, d - 1)
    IN IF r1.status # "ok" THEN r1 ELSE
       LET r2 == bind_pat(r1.res, e.pat, [r1.m EXCEPT !.st = enter(@)], d - 1)
       IN IF r2.status # "ok" THEN r2 ELSE eval(r2.m, e.body, d - 1)

EvalLet(m, e, d) ==
    LET r1 == eval(m, e.exp, d - 1)
    IN IF r1.status # "ok" THEN r1 ELSE
       LET r2 == bind_pat(r1.res, e.pat, [r1.m EXCEPT !.st = enter(@)], d - 1)
       IN IF r2.status # "ok" THEN r2 ELSE
          LET r3 == eval(r2.m, e.body, d - 1)
          IN IF r3.status # "ok" THEN r3
             ELSE IF ~CanExeunt(r3.m.st) THEN Panic(r3.m, "exeunt")
             ELSE Ok([r3.m EXCEPT !.st = exeunt(@)], r3.res)

\* EvalEApp as it would be if the body ran in a frame of its own
EvalEApp_freshFrame(m, e, d) ==
    LET func == eval(m, e.exp, d - 1)
    IN IF func.status # "ok" THEN func ELSE
       LET param == eval(func.m, e.arg, d - 1)
       IN IF param.status # "ok" THEN param
          ELSE IF func.res.tag # "Lambda" THEN Panic(param.m, "EApp")
          ELSE LET res == eval([param.m EXCEPT !.st =
                                   BindParam(enter(@), func.res.var,
                                             func.res.typ, param.res)],
                               func.res.body, d - 1)
               IN IF res.status # "ok" THEN res
                  ELSE Ok([res.m EXCEPT !.st = exeunt(@)], res.res)

EvalEApp(m, e, d) ==
    LET func == eval(m, e.exp, d - 1)
    IN IF func.status # "ok" THEN func ELSE
       LET param == eval(func.m, e.arg, d - 1)
       IN IF param.status # "ok" THEN param
          ELSE IF func.res.tag # "Lambda" THEN Panic(param.m, "EApp")
          ELSE eval([param.m EXCEPT !.st =
                        BindParam(@, func.res.var, func.res.typ, param.res)],
                    func.res.body, d - 1)

\* EvalTApp as it would be if the type argument were written into the
\* annotation of the lambda the abstraction yields
EvalTApp_annotating(m, e, d) ==
    LET r1 == eval(m, e.exp, d - 1)
    IN IF r1.status # "ok" THEN r1
       ELSE IF r1.res.tag # "Any" THEN Panic(r1.m, "TApp")
       ELSE LET body == r1.res.body
                applied == IF body.tag = "Lambda" /\ body.typ = TVar(r1.res.tvar)
                           THEN Lambda(body.var, e.targ, body.body)
                           ELSE body
            IN eval([r1.m EXCEPT !.st = BindTypeParam(@, r1.res.tvar, e.targ)],
                    applied, d - 1)

EvalTApp(m, e, d) ==
    LET r1 == eval(m, e.exp, d - 1)
    IN IF r1.status # "ok" THEN r1
       ELSE IF r1.res.tag # "Any" THEN Panic(r1.m, "TApp")
       ELSE eval([r1.m EXCEPT !.st = BindTypeParam(@, r1.res.tvar, e.targ)],
                 r1.res.body, d - 1)

\* line 127: entries.iter().map(|e| eval(store, e)), from entry i on
EvalEntries(m, entries, i, acc, d) ==
    IF i > Len(entries) THEN Ok(m, Tuple(acc))
    ELSE LET r == eval(m, entries[i], d - 1)
         IN IF r.status # "ok" THEN r
            ELSE EvalEntries(r.m, entries, i + 1, Append(acc, r.res), d)

EvalTuple_reversed(m, e, d) ==
    LET r == EvalEntries(m, e.entries, 1, <<>>, d)
        n == Len(r.res.entries)
    IN IF r.status # "ok" THEN r
       ELSE Ok(r.m, Tuple([i \in 1..n |-> r.res.entries[n + 1 - i]]))

EvalTuple(m, e, d) == EvalEntries(m, e.entries, 1, <<>>, d)

EvalBinop(m, e, d) ==
    LET lhs_nf == eval(m, e.lhs, d - 1)
    IN IF lhs_nf.status # "ok" THEN lhs_nf ELSE
       LET rhs_nf == eval(lhs_nf.m, e.rhs, d - 1)
       IN IF rhs_nf.status # "ok" THEN rhs_nf
          ELSE IF e.op \in IntOps
          THEN Ok(rhs_nf.m, IntBinop(lhs_nf.res, e.op, rhs_nf.res))
          ELSE Ok(rhs_nf.m, BoolBinop(lhs_nf.res, e.op, rhs_nf.res))

\* EvalIf as it would be if both branches were evaluated before the choice
EvalIf_bothBranches(m, e, d) ==
    LET cond_new == eval([m EXCEPT !.st = enter(@)], e.cond, d - 1)
    IN IF cond_new.status # "ok" THEN cond_new
       ELSE IF ~CanExeunt(cond_new.m.st) THEN Panic(cond_new.m, "exeunt")
       ELSE LET m2 == [cond_new.m EXCEPT !.st = exeunt(@)]
                res_t == eval(m2, e.branch_t, d - 1)
            IN IF ~IsBoolean(cond_new.res) THEN Panic(m2, "If")
               ELSE IF res_t.status # "ok" THEN res_t
               ELSE LET res_f == eval(res_t.m, e.branch_f, d - 1)
                    IN IF res_f.status # "ok" THEN res_f
                       ELSE Ok(res_f.m, IF cond_new.res.b THEN res_t.res
                                        ELSE res_f.res)

\* EvalIf as it would be if the condition were evaluated in the ambient frame
EvalIf_noAdventure(m, e, d) ==
    LET cond_new == eval(m, e.cond, d - 1)
    IN IF cond_new.status # "ok" THEN cond_new
       ELSE IF ~IsBoolean(cond_new.res) THEN Panic(cond_new.m, "If")
       ELSE IF cond_new.res.b THEN eval(cond_new.m, e.branch_t, d - 1)
       ELSE eval(cond_new.m, e.branch_f, d - 1)

\* adventure!(cond_new, eval(store, cond), store): enter, evaluate, exeunt
EvalIf(m, e, d) ==
    LET cond_new == eval([m EXCEPT !.st = enter(@)], e.cond, d - 1)
    IN IF cond_new.status # "ok" THEN cond_new
       ELSE IF ~CanExeunt(cond_new.m.st) THEN Panic(cond_new.m, "exeunt")
       ELSE LET m2 == [cond_new.m EXCEPT !.st = exeunt(@)]
            IN IF ~IsBoolean(cond_new.res) THEN Panic(m2, "If")
               ELSE IF cond_new.res.b THEN eval(m2, e.branch_t, d - 1)
               ELSE eval(m2, e.branch_f, d - 1)

eval_arm(m1, e, d) ==
    CASE e.tag = "Con" -> Ok(m1, e)
      [] e.tag = "Var" -> EvalVar(m1, e)
      [] e.tag = "Let" -> EvalLet(m1, e, d)
      [] e.tag = "EApp" -> EvalEApp(m1, e, d)
      [] e.tag = "TApp" -> EvalTApp(m1, e, d)
      [] e.tag = "Tuple" -> EvalTuple(m1, e, d)
      [] e.tag = "Binop" -> EvalBinop(m1, e, d)
      [] e.tag = "Lambda" -> Ok(m1, e)
      [] e.tag = "Any" -> Ok(m1, e)
      [] e.tag = "If" -> EvalIf(m1, e, d)

eval(m, e, d) ==
    IF d = 0 THEN Overflow(m)
    ELSE Returned(eval_arm(Logged(m, e), e, d), e, Len(m.st))

\* BindEntries as it would be if the entries were taken from the far end
BindEntries_mirrored(entries, patterns, i, m, d) ==
    IF i > MinLen(entries, patterns) THEN Ok(m, Tuple(entries))
    ELSE LET r == bind_pat(entries[Len(entries) + 1 - i], patterns[i], m, d - 1)
         IN IF r.status # "ok" THEN r
            ELSE BindEntries_mirrored(entries, patterns, i + 1, r.m, d)

\* lines 236-238: entries.iter().zip(patterns), which stops at the shorter
BindEntries(entries, patterns, i, m, d) ==
    IF i > MinLen(entries, patterns) THEN Ok(m, Tuple(entries))
    ELSE LET r == bind_pat(entries[i], patterns[i], m, d - 1)
         IN IF r.status # "ok" THEN r
            ELSE BindEntries(entries, patterns, i + 1, r.m, d)

\* lines 241-246: the value is evaluated once more, then inserted
BindBinding(exp, pat, m, d) ==
    LET value == eval(m, exp, d - 1)
    IN IF value.status # "ok" THEN value
       ELSE Ok([value.m EXCEPT !.st = BindName(@, pat.id, pat.typ, value.res)],
               value.res)

bind_pat(exp, pat, m, d) ==
    IF d = 0 THEN Overflow(m)
    ELSE LET m1 == LoggedBind(m, exp, pat)
         IN CASE exp.tag = "Tuple" /\ pat.tag = "PTuple" ->
                    BindEntries(exp.entries, pat.patterns, 1, m1, d)
              [] pat.tag = "Wildcard" -> Ok(m1, exp)
              [] pat.tag = "Binding" -> BindBinding(exp, pat, m1, d)
              [] OTHER -> Panic(m1, "bind_pat")

(***************************************************************************)
(* The static checker (super::semant): the typing rules of the calculus.   *)
(* A context maps names to types; a check returns whether the expression   *)
(* is accepted and, if so, its type.                                       *)
(***************************************************************************)
Accept(t) == [ok |-> TRUE, typ |-> t]
Reject == [ok |-> FALSE, typ |-> TInt]

RECURSIVE subst_type(_, _, _)
subst_type(t, v, by) ==
    CASE t.tag = "TVar" -> IF t.tvar = v THEN by ELSE t
      [] t.tag = "TArrow" ->
            TArrow(subst_type(t.dom, v, by), subst_type(t.cod, v, by))
      [] t.tag = "TProd" ->
            TProd([i \in DOMAIN t.parts |-> subst_type(t.parts[i], v, by)])
      [] t.tag = "TForall" ->
            IF t.tvar = v THEN t ELSE TForall(t.tvar, subst_type(t.tbody, v, by))
      [] OTHER -> t

RECURSIVE PatType(_)
PatType(pat) ==
    IF pat.tag = "PTuple"
    THEN TProd([i \in DOMAIN pat.patterns |-> PatType(pat.patterns[i])])
    ELSE pat.typ

RECURSIVE PatCtxt(_, _), PatCtxtFrom(_, _, _)
PatCtxtFrom(ctxt, patterns, i) ==
    IF i > Len(patterns) THEN ctxt
    ELSE PatCtxtFrom(PatCtxt(ctxt, patterns[i]), patterns, i + 1)

PatCtxt(ctxt, pat) ==
    CASE pat.tag = "Wildcard" -> ctxt
      [] pat.tag = "Binding" -> insert(ctxt, pat.id, pat.typ)
      [] pat.tag = "PTuple" -> PatCtxtFrom(ctxt, pat.patterns, 1)

RECURSIVE check(_, _)
check(ctxt, e) ==
    CASE e.tag = "Con" -> Accept(IF e.kind = "Integer" THEN TInt ELSE TBool)
      [] e.tag = "Var" ->
            IF e.id \in DOMAIN ctxt THEN Accept(ctxt[e.id]) ELSE Reject
      [] e.tag = "Let" ->
            LET t1 == check(ctxt, e.exp)
            IN IF t1.ok /\ t1.typ = PatType(e.pat)
               THEN check(PatCtxt(ctxt, e.pat), e.body)
               ELSE Reject
      [] e.tag = "EApp" ->
            LET tf == check(ctxt, e.exp)
                ta == check(ctxt, e.arg)
            IN IF tf.ok /\ ta.ok /\ tf.typ.tag = "TArrow" /\ tf.typ.dom = ta.typ
               THEN Accept(tf.typ.cod)
               ELSE Reject
      [] e.tag = "TApp" ->
            LET tf == check(ctxt, e.exp)
            IN IF tf.ok /\ tf.typ.tag = "TForall"
               THEN Accept(subst_type(tf.typ.tbody, tf.typ.tvar, e.targ))
               ELSE Reject
      [] e.tag = "Tuple" ->
            LET ts == [i \in DOMAIN e.entries |-> check(ctxt, e.entries[i])]
            IN IF \A i \in DOMAIN ts : ts[i].ok
               THEN Accept(TProd([i \in DOMAIN ts |-> ts[i].typ]))
               ELSE Reject
      [] e.tag = "Binop" ->
            LET tl == check(ctxt, e.lhs)
                tr == check(ctxt, e.rhs)
                want == IF e.op \in IntOps THEN TInt ELSE TBool
            IN IF tl.ok /\ tr.ok /\ tl.typ = want /\ tr.typ = want
               THEN Accept(IF e.op \in {"Add", "Sub", "Mul"} THEN TInt ELSE TBool)
               ELSE Reject
      [] e.tag = "Lambda" ->
            LET tb == check(insert(ctxt, e.var, e.typ), e.body)
            IN IF tb.ok THEN Accept(TArrow(e.typ, tb.typ)) ELSE Reject
      [] e.tag = "Any" ->
            LET tb == check(ctxt, e.body)
            IN IF tb.ok THEN Accept(TForall(e.tvar, tb.typ)) ELSE Reject
      [] e.tag = "If" ->
            LET tc == check(ctxt, e.cond)
                tt == check(ctxt, e.branch_t)
                tf == check(ctxt, e.branch_f)
            IN IF tc.ok /\ tt.ok /\ tf.ok /\ tc.typ = TBool /\ tt.typ = tf.typ
               THEN Accept(tt.typ)
               ELSE Reject

check_expr(expr, ctxt) == check(ctxt, expr)

Decl(id, sig, body) == [id |-> id, sig |-> sig, body |-> body]

check_decl(decl, ctxt) ==
    LET tb == check(ctxt, decl.body)
    IN IF tb.ok /\ tb.typ = decl.sig THEN tb ELSE Reject

(***************************************************************************)
(* The three boundary operations.  Each returns its outcome, the snapshot  *)
(* it leaves and the log of the eval calls it made.                        *)
(***************************************************************************)
TypeError == [title |-> "type error"]

Outcome(status, value, why, m) ==
    [status |-> status, value |-> value, why |-> why, st |-> m.st,
     log |-> m.log, binds |-> m.binds, rets |-> m.rets]

\* eval_expr as it would be if the outcome of the check were dropped
eval_expr_unchecked(expr, st) ==
    LET r == eval(Machine(st, <<>>), expr, MaxDepth)
    IN Outcome(r.status, r.res, r.why, r.m)

eval_expr(expr, st) ==
    LET ctxt == SnapshotNew(current(st).typ_store)
        chk == check_expr(expr, current(enter(ctxt)))
    IN IF ~chk.ok
       THEN Outcome("type_error", Var("?"), "check_expr", Machine(st, <<>>))
       ELSE LET r == eval(Machine(st, <<>>), expr, MaxDepth)
            IN Outcome(r.status, r.res, r.why, r.m)

\* lines 28-30: the declared name is inserted into the current frame
BindDecl(st, id, sig, body) ==
    setCurrent(st, Store(insert(current(st).val_store, id, body),
                         insert(current(st).typ_store, id, sig)))

eval_decl(decl, st) ==
    LET ctxt == SnapshotNew(current(st).typ_store)
        chk == check_decl(decl, current(enter(ctxt)))
    IN IF ~chk.ok
       THEN Outcome("type_error", Var("?"), "check_decl", Machine(st, <<>>))
       ELSE LET body == eval(Machine(st, <<>>), decl.body, MaxDepth)
            IN IF body.status # "ok"
               THEN Outcome(body.status, body.res, body.why, body.m)
               ELSE Outcome("ok", body.res, "none",
                            [body.m EXCEPT !.st =
                                BindDecl(@, decl.id, decl.sig, body.res)])

Prog(order, declarations) == [order |-> order, declarations |-> declarations]

\* the loop as it would be if a failed declaration did not end it
RECURSIVE eval_prog_from_noStop(_, _, _, _)
eval_prog_from_noStop(prog, i, st, seen) ==
    IF i > Len(prog.order)
    THEN [status |-> "ok", why |-> "none", st |-> st, seen |-> seen]
    ELSE LET id == prog.order[i]
             r == eval_decl(prog.declarations[id], st)
             seen1 == Append(seen, [id |-> id, st |-> st, status |-> r.status])
         IN eval_prog_from_noStop(prog, i + 1, r.st, seen1)

\* lines 37-40: the loop over prog.order from position i on; seen collects,
\* for every declaration handed to eval_decl, its id and the store it met
RECURSIVE eval_prog_from(_, _, _, _)
eval_prog_from(prog, i, st, seen) ==
    IF i > Len(prog.order)
    THEN [status |-> "ok", why |-> "none", st |-> st, seen |-> seen]
    ELSE LET id == prog.order[i]
             r == eval_decl(prog.declarations[id], st)
             seen1 == Append(seen, [id |-> id, st |-> st, status |-> r.status])
         IN IF r.status # "ok"
            THEN [status |-> r.status, why |-> r.why, st |-> r.st, seen |-> seen1]
            ELSE eval_prog_from(prog, i + 1, r.st, seen1)

eval_prog(prog) == eval_prog_from(prog, 1, SnapshotDefault, <<>>)

(***************************************************************************)
(* Inputs: the expressions, declarations and programs a session is given.  *)
(***************************************************************************)
Consts == {Integer(1), Integer(2), Boolean(TRUE), Boolean(FALSE)}
TypeOfCon(c) == IF c.kind = "Integer" THEN TInt ELSE TBool
Names == {"x", "y"}

\* let x = a in let x = b in x
Shadow(a, b) ==
    Let(Binding("x", TypeOfCon(a)), a, Let(Binding("x", TypeOfCon(b)), b, Var("x")))
\* let x = a in ((let x = b in x), x)
ShadowPair(a, b) ==
    Let(Binding("x", TypeOfCon(a)), a,
        Tuple(<<Let(Binding("x", TypeOfCon(b)), b, Var("x")), Var("x")>>))
\* (lambda v:T. v) c
ApplyId(v, c) == EApp(Lambda(v, TypeOfCon(c), Var(v)), c)
\* let y = c in lambda x:Int. y
EscapingLambda(c) == Let(Binding("y", TypeOfCon(c)), c, Lambda("x", TInt, Var("y")))
\* (lambda x:Int. ((lambda x:Bool. 0) true) + x) 5
LeakIntoOperand ==
    EApp(Lambda("x", TInt,
                Binop(EApp(Lambda("x", TBool, Integer(0)), Boolean(TRUE)),
                      "Add", Var("x"))),
         Integer(5))
\* Any T. lambda x:T. x
PolyId == Any("T", Lambda("x", TVar("T"), Var("x")))

\* ((let y = 1 in lambda x:Int. y) 5): well typed, aborts at the lookup of y
Abort == EApp(EscapingLambda(Integer(1)), Integer(5))
\* conditions whose evaluation binds names: by an application, a type
\* application and a let
LeakyConds ==
    {ApplyId("y", Boolean(TRUE)), ApplyId("y", Boolean(FALSE)),
     Binop(EApp(TApp(PolyId, TInt), Integer(1)), "Lt", Integer(2)),
     Binop(Let(Binding("y", TInt), Integer(2), Var("y")), "Gt", Integer(1))}

\* let (x, y) = (1, 2) in x - y
DestructPair ==
    Let(PTuple(<<Binding("x", TInt), Binding("y", TInt)>>),
        Tuple(<<Integer(1), Integer(2)>>),
        Binop(Var("x"), "Sub", Var("y")))
\* let (x, (_, y)) = (3 + 4, (true, 2)) in x - y
DestructNested ==
    Let(PTuple(<<Binding("x", TInt),
                 PTuple(<<Wildcard(TBool), Binding("y", TInt)>>)>>),
        Tuple(<<Binop(Integer(3), "Add", Integer(4)),
                Tuple(<<Boolean(TRUE), Integer(2)>>)>>),
        Binop(Var("x"), "Sub", Var("y")))

\* Any T. (lambda x:Int. x) 2
PolyApply == Any("T", ApplyId("x", Integer(2)))

\* (lambda p:(Int, Int).
\*     let _ = (lambda p:t. 0) v in let (x, y) = p in x) (1, 2)
Rebound(t, v) ==
    EApp(Lambda("p", TProd(<<TInt, TInt>>),
                Let(Wildcard(TInt), EApp(Lambda("p", t, Integer(0)), v),
                    Let(PTuple(<<Binding("x", TInt), Binding("y", TInt)>>),
                        Var("p"), Var("x")))),
         Tuple(<<Integer(1), Integer(2)>>))
ReboundExprs ==
    {Rebound(TProd(<<TInt>>), Tuple(<<Integer(7)>>)),
     Rebound(TProd(<<TInt, TInt, TInt>>),
             Tuple(<<Integer(7), Integer(8), Integer(9)>>)),
     Rebound(TInt, Integer(7)),
     Rebound(TProd(<<TInt, TInt>>), Tuple(<<Integer(7), Integer(8)>>))}

Operands ==
    {Integer(1), Var("x"), Var("y"), ApplyId("x", Integer(2)),
     ApplyId("y", Boolean(TRUE)), Let(Binding("x", TInt), Integer(2), Var("x"))}

AtomExprs == Consts \cup {Var("x"), Var("y"), Var("a"), Var("f")}
ShadowExprs ==
    {Shadow(a, b) : a \in Consts, b \in Consts}
      \cup {ShadowPair(a, b) : a \in Consts, b \in Consts}
AppExprs ==
    {ApplyId(v, c) : v \in Names, c \in Consts}
      \cup {EApp(Lambda("x", TInt, Binop(Var("x"), "Add", Integer(1))), c) :
               c \in {Integer(5), Boolean(TRUE)}}
      \cup {EApp(EscapingLambda(c), Integer(5)) : c \in Consts}
      \cup {EApp(Var("f"), Integer(2)), EApp(Integer(1), Integer(2)),
            LeakIntoOperand}
LetExprs ==
    {Let(Binding(v, TInt), e1, e2) : v \in Names, e1 \in Operands, e2 \in Operands}
      \cup {EscapingLambda(c) : c \in Consts}
      \cup {DestructPair, DestructNested,
            Let(Wildcard(TInt), Integer(1), Var("x")),
            Let(PTuple(<<Binding("x", TInt)>>), Integer(1), Var("x"))}
TupleExprs == {Tuple(<<e1, e2>>) : e1 \in Operands, e2 \in Operands}
BinopExprs ==
    {Binop(Integer(3), op, Integer(4)) : op \in IntOps}
      \cup {Binop(Boolean(TRUE), op, Boolean(FALSE)) : op \in BoolOps}
      \cup {Binop(Integer(1), "Add", Boolean(TRUE)),
            Binop(Var("x"), "Add", Var("y"))}
IfExprs ==
    {If(c, Integer(1), e) : c \in {Boolean(TRUE), Boolean(FALSE), Integer(1)},
                            e \in {Integer(2), Var("x"), Boolean(TRUE)}}
      \cup {If(Binop(ApplyId("x", Integer(1)), "Lt", Integer(2)), e, Integer(0)) :
               e \in {Integer(1), Var("x")}}
      \cup {If(c, Integer(1), e) : c \in {Boolean(TRUE), Boolean(FALSE)},
                                   e \in {Abort, ApplyId("x", Integer(2))}}
      \cup {If(c, Integer(1), Integer(0)) : c \in LeakyConds}
TAppExprs ==
    {PolyId, TApp(PolyId, TInt), TApp(PolyId, TBool),
     TApp(PolyApply, TInt), TApp(PolyApply, TBool),
     EApp(TApp(PolyId, TInt), Integer(1)), EApp(TApp(PolyId, TBool), Integer(1)),
     TApp(Integer(1), TInt)}

Exprs ==
    AtomExprs \cup ShadowExprs \cup AppExprs \cup LetExprs \cup TupleExprs
      \cup BinopExprs \cup IfExprs \cup TAppExprs \cup ReboundExprs

\* the declarations of the programs, by identifier
DeclIds == {"x", "y", "a", "b", "f"}
Declarations ==
    [id \in DeclIds |->
        CASE id = "x" -> Decl("x", TInt, Integer(5))
          [] id = "y" -> Decl("y", TInt, Binop(Var("x"), "Add", Integer(1)))
          [] id = "a" -> Decl("a", TInt, ApplyId("x", Integer(1)))
          [] id = "b" -> Decl("b", TBool, Integer(1))
          [] id = "f" -> Decl("f", TArrow(TInt, TInt),
                              Lambda("x", TInt, Binop(Var("x"), "Add", Integer(1))))]

Decls ==
    {Declarations[id] : id \in DOMAIN Declarations}
      \cup {Decl("x", TBool, Boolean(TRUE)), Decl("a", TInt, Var("a")),
            Decl("g", TArrow(TInt, TInt), EscapingLambda(Integer(1))),
            Decl("y", TInt, EApp(EscapingLambda(Integer(1)), Integer(5)))}

MaxOrder == 3
Orders ==
    {o \in UNION {[1..n -> DOMAIN Declarations] : n \in 0..MaxOrder} :
        \A i, j \in DOMAIN o : i # j => o[i] # o[j]}
Progs == {Prog(o, Declarations) : o \in Orders}

(***************************************************************************)
(* The session.                                                            *)
(***************************************************************************)
NoArg == Var("?")
Brief(r) == [status |-> r.status, value |-> r.value, why |-> r.why]
Aborts(status) == status \in {"panic", "overflow"}

Init ==
    /\ store = SnapshotDefault
    /\ lastOp = [op |-> "none", arg |-> NoArg, pre |-> SnapshotDefault]
    /\ result = [status |-> "ok", value |-> NoArg, why |-> "none"]
    /\ evalLog = <<>>
    /\ bindLog = <<>>
    /\ retLog = <<>>
    /\ progLog = <<>>
    /\ pc = "ready"
    /\ nOps = 0

EvalExpr ==
    /\ pc = "ready"
    /\ nOps < MaxOps
    /\ \E expr \in Exprs : \E r \in {eval_expr(expr, store)} :
             /\ store' = r.st
             /\ lastOp' = [op |-> "eval_expr", arg |-> expr, pre |-> store]
             /\ result' = Brief(r)
             /\ evalLog' = r.log
             /\ bindLog' = r.binds
             /\ retLog' = r.rets
             /\ pc' = IF Aborts(r.status) THEN "aborted" ELSE "ready"
    /\ progLog' = <<>>
    /\ nOps' = nOps + 1

EvalDecl ==
    /\ pc = "ready"
    /\ nOps < MaxOps
    /\ \E decl \in Decls : \E r \in {eval_decl(decl, store)} :
             /\ store' = r.st
             /\ lastOp' = [op |-> "eval_decl", arg |-> decl, pre |-> store]
             /\ result' = Brief(r)
             /\ evalLog' = r.log
             /\ bindLog' = r.binds
             /\ retLog' = r.rets
             /\ pc' = IF Aborts(r.status) THEN "aborted" ELSE "ready"
    /\ progLog' = <<>>
    /\ nOps' = nOps + 1

EvalProg ==
    /\ pc = "ready"
    /\ nOps < MaxOps
    /\ \E prog \in Progs : \E r \in {eval_prog(prog)} :
             /\ lastOp' = [op |-> "eval_prog", arg |-> prog, pre |-> store]
             /\ result' = [status |-> r.status, value |-> NoArg, why |-> r.why]
             /\ progLog' = r.seen
             /\ pc' = IF Aborts(r.status) THEN "aborted" ELSE "ready"
    /\ evalLog' = <<>>
    /\ bindLog' = <<>>
    /\ retLog' = <<>>
    /\ nOps' = nOps + 1
    /\ UNCHANGED store

Next == EvalExpr \/ EvalDecl \/ EvalProg

Spec == Init /\ [][Next]_vars

(***************************************************************************)
(* Properties.                                                             *)
(***************************************************************************)
AllNames == Names \cup DeclIds \cup {"g", "T"}
Bound(frame, name) ==
    name \in DOMAIN frame.val_store \/ name \in DOMAIN frame.typ_store

RECURSIVE IsValue(_)
IsValue(e) ==
    CASE e.tag = "Con" -> TRUE
      [] e.tag = "Tuple" -> \A i \in DOMAIN e.entries : IsValue(e.entries[i])
      [] e.tag = "Lambda" -> TRUE
      [] e.tag = "Any" -> TRUE
      [] OTHER -> FALSE

ReturnedExpr == lastOp.op = "eval_expr" /\ result.status = "ok"
ReturnedDecl == lastOp.op = "eval_decl" /\ result.status = "ok"

\* C1: after eval_expr returns a value, the value mapping and the type
\* mapping of the store's top frame are what they were before the call.
C1_EvalExprKeepsTopFrame ==
    ReturnedExpr => current(store) = current(lastOp.pre)

\* C2: evaluating a closed expression that the checker accepts, from an
\* empty store, never aborts at the lookup of a variable.
C2_NoUnboundVariable ==
    (lastOp.op = "eval_expr" /\ lastOp.pre = SnapshotDefault)
        => ~(result.status = "panic" /\ result.why = "Var")

\* C3: every expression eval returns is a Value: a constant, a tuple of
\* Values, a lambda or a universal abstraction.
C3_ResultIsValue ==
    ReturnedExpr => IsValue(result.value)

\* C4: a name that occurs free in the value eval returns is bound in the
\* top-level frame of the store.
C4_FreeNamesAreGlobal ==
    ReturnedExpr =>
        \A name \in AllNames :
            fv(name, result.value) => name \in DOMAIN current(store).val_store

\* C5: after the evaluation of `let x = e1 in e2` returns, with x not bound
\* in the ambient frame before, x is bound neither in the value mapping nor
\* in the type mapping of the ambient frame.
C5_LetLeavesNoBinding ==
    (/\ ReturnedExpr
     /\ lastOp.arg.tag = "Let"
     /\ lastOp.arg.pat.tag = "Binding"
     /\ ~Bound(current(lastOp.pre), lastOp.arg.pat.id))
        => ~Bound(current(store), lastOp.arg.pat.id)

\* C6: the value of the tuple (e1, e2) from a store s is the tuple of the
\* value of e1 from s and the value of e2 from the same s.
C6_TupleIsStructural ==
    (/\ ReturnedExpr
     /\ lastOp.arg.tag = "Tuple"
     /\ Len(lastOp.arg.entries) = 2)
        => LET v1 == eval(Machine(lastOp.pre, <<>>), lastOp.arg.entries[1], MaxDepth)
               v2 == eval(Machine(lastOp.pre, <<>>), lastOp.arg.entries[2], MaxDepth)
           IN (v1.status = "ok" /\ v2.status = "ok")
                 => result.value = Tuple(<<v1.res, v2.res>>)

\* C7: after a successful eval_decl the top frame maps the declared name to
\* the value of the body and to the declared type, and every other name is
\* bound as before the call.
C7_DeclGrowsByOneName ==
    ReturnedDecl =>
        LET decl == lastOp.arg
            before == current(lastOp.pre)
            after == current(store)
        IN /\ decl.id \in DOMAIN after.val_store
           /\ after.val_store[decl.id] = result.value
           /\ decl.id \in DOMAIN after.typ_store
           /\ after.typ_store[decl.id] = decl.sig
           /\ \A name \in AllNames \ {decl.id} :
                 /\ (name \in DOMAIN after.val_store) = (name \in DOMAIN before.val_store)
                 /\ (name \in DOMAIN after.typ_store) = (name \in DOMAIN before.typ_store)
                 /\ name \in DOMAIN before.val_store
                       => after.val_store[name] = before.val_store[name]
                 /\ name \in DOMAIN before.typ_store
                       => after.typ_store[name] = before.typ_store[name]

Rejected ==
    \/ /\ lastOp.op = "eval_expr"
       /\ ~check_expr(lastOp.arg, current(lastOp.pre).typ_store).ok
    \/ /\ lastOp.op = "eval_decl"
       /\ ~check_decl(lastOp.arg, current(lastOp.pre).typ_store).ok

\* C8: when the check fails, eval_expr and eval_decl return the type error,
\* eval is not called, and the store is the store before the call.
C8_TypeErrorLeavesStore ==
    Rejected =>
        /\ result.status = "type_error"
        /\ evalLog = <<>>
        /\ store = lastOp.pre

C8_Witness ==
    /\ Rejected
    /\ result.status = "type_error"
    /\ current(store).val_store # EmptyMap

\* C9: eval_prog hands the declarations to eval_decl in the order of
\* prog.order, the first against a fresh empty store and each later one
\* against the store the one before it left, which binds the names of all
\* earlier declarations; the first failure is returned and ends the run.
C9_ProgInOrderUntilFailure ==
    lastOp.op = "eval_prog" =>
        LET order == lastOp.arg.order
            decls == lastOp.arg.declarations
            n == Len(progLog)
        IN /\ n <= Len(order)
           /\ \A i \in 1..n : progLog[i].id = order[i]
           /\ n > 0 => progLog[1].st = SnapshotDefault
           /\ \A i \in 1..n : i < n => progLog[i].status = "ok"
           /\ \A i \in 1..n : i < n =>
                 progLog[i + 1].st = eval_decl(decls[order[i]], progLog[i].st).st
           /\ \A i \in 1..n : \A j \in 1..n : j < i =>
                 /\ order[j] \in DOMAIN current(progLog[i].st).val_store
                 /\ order[j] \in DOMAIN current(progLog[i].st).typ_store
           /\ n < Len(order) => progLog[n].status # "ok"
           /\ result.status = (IF n = 0 THEN "ok" ELSE progLog[n].status)

C9_Witness ==
    /\ lastOp.op = "eval_prog"
    /\ result.status = "type_error"
    /\ Len(progLog) = 2
    /\ Len(lastOp.arg.order) = 3

\* C10: `let x = a in let x = b in x` evaluates to b for all constants a
\* and b, and the ambient frame is left as it was: no binding of x made by
\* the two lets remains in it.
C10_ShadowingInnermostWins ==
    \A a \in Consts : \A b \in Consts :
        (lastOp.op = "eval_expr" /\ lastOp.arg = Shadow(a, b)) =>
            /\ result.status = "ok"
            /\ result.value = b
            /\ store = lastOp.pre
            /\ ~Bound(current(lastOp.pre), "x") => ~Bound(current(store), "x")

C10_Witness ==
    /\ lastOp.op = "eval_expr"
    /\ lastOp.arg = Shadow(Integer(1), Integer(2))
    /\ result.value = Integer(2)
    /\ ~Bound(current(store), "x")

\* the last call was eval_expr of an expression with this tag that the
\* checker accepted, so eval ran on it
Evaluated(tag) ==
    lastOp.op = "eval_expr" /\ lastOp.arg.tag = tag /\ evalLog # <<>>
\* the entry the log has for the outermost call of eval
OutermostEntry == [expr |-> lastOp.arg, st |-> lastOp.pre]

\* C11: a conditional evaluates its condition and then the selected branch
\* only: outcome, store and the logged eval calls are those of the condition
\* followed by the selected branch, so the other branch is never evaluated
\* and can neither abort the run nor bind a name.
C11_OnlySelectedBranch ==
    Evaluated("If") =>
        LET e == lastOp.arg
            c == eval(Machine(enter(lastOp.pre), <<>>), e.cond, MaxDepth - 1)
        IN (c.status = "ok" /\ IsBoolean(c.res)) =>
              LET sel == IF c.res.b THEN e.branch_t ELSE e.branch_f
                  br == eval(Machine(exeunt(c.m.st), <<>>), sel, MaxDepth - 1)
              IN /\ result.status = br.status
                 /\ br.status = "ok" => result.value = br.res
                 /\ store = br.m.st
                 /\ evalLog = <<OutermostEntry>> \o c.m.log \o br.m.log

C11_Witness ==
    /\ Evaluated("If")
    /\ lastOp.arg = If(Boolean(TRUE), Integer(1), Abort)
    /\ result.status = "ok"
    /\ result.value = Integer(1)
    /\ store = lastOp.pre

\* lambda x:Int. x + 1
Successor == Lambda("x", TInt, Binop(Var("x"), "Add", Integer(1)))

\* C12: an application evaluates the callee, then the argument once, to a
\* value v, then the body of the lambda in the caller's own frame, at the
\* caller's stack depth, with the parameter bound there to v and to its
\* declared type; the value of the application is the value of the body, and
\* (lambda x:Int. x + 1) applied to 5 gives 6.
C12_CallByValue ==
    Evaluated("EApp") =>
        LET e == lastOp.arg
            func == eval(Machine(lastOp.pre, <<>>), e.exp, MaxDepth - 1)
        IN (func.status = "ok" /\ func.res.tag = "Lambda") =>
              LET param == eval(Machine(func.m.st, <<>>), e.arg, MaxDepth - 1)
                  at == 2 + Len(func.m.log) + Len(param.m.log)
              IN param.status = "ok" =>
                    /\ Len(evalLog) >= at
                    /\ LET entry == evalLog[at]
                           frame == current(entry.st)
                           before == current(param.m.st)
                           body == eval(Machine(entry.st, <<>>), func.res.body,
                                        MaxDepth - 1)
                       IN /\ entry.expr = func.res.body
                          /\ Len(entry.st) = Len(lastOp.pre)
                          /\ exeunt(entry.st) = exeunt(param.m.st)
                          /\ frame.val_store =
                                insert(before.val_store, func.res.var, param.res)
                          /\ frame.typ_store =
                                insert(before.typ_store, func.res.var, func.res.typ)
                          /\ evalLog = <<OutermostEntry>> \o func.m.log
                                          \o param.m.log \o body.m.log
                          /\ result.status = body.status
                          /\ body.status = "ok" => result.value = body.res
                          /\ e = EApp(Successor, Integer(5))
                                => result.value = Integer(6)

C12_Witness ==
    /\ Evaluated("EApp")
    /\ lastOp.arg = EApp(Successor, Integer(5))
    /\ result.value = Integer(6)
    /\ Len(evalLog) = 6

\* the pattern and the value have the same shape: every tuple pattern meets
\* a tuple of its own arity
RECURSIVE Matches(_, _)
Matches(pat, v) ==
    pat.tag = "PTuple" =>
        /\ v.tag = "Tuple"
        /\ Len(v.entries) = Len(pat.patterns)
        /\ \A i \in DOMAIN pat.patterns : Matches(pat.patterns[i], v.entries[i])

\* the bindings a pattern makes against a value of its shape, by position
RECURSIVE Positional(_, _)
Positional(pat, v) ==
    CASE pat.tag = "Wildcard" -> {}
      [] pat.tag = "Binding" -> {[id |-> pat.id, typ |-> pat.typ, value |-> v]}
      [] pat.tag = "PTuple" ->
            UNION {Positional(pat.patterns[i], v.entries[i]) :
                      i \in DOMAIN pat.patterns}

TypeArgs == {TInt, TBool, TArrow(TInt, TInt)}

\* C14: a type application of a universal abstraction returns the same
\* value, with the same outcome, and leaves the same value mappings whatever
\* the type argument; the stores two type arguments leave differ at most in
\* the type mapping of the current frame, at the name of the type parameter.
C14_TypeArgumentIrrelevant ==
    Evaluated("TApp") =>
        LET e == lastOp.arg
            f == eval(Machine(lastOp.pre, <<>>), e.exp, MaxDepth - 1)
        IN (f.status = "ok" /\ f.res.tag = "Any") =>
              \A other \in TypeArgs :
                 LET r == eval(Machine(lastOp.pre, <<>>), TApp(e.exp, other),
                               MaxDepth)
                     mine == current(store)
                     theirs == current(r.m.st)
                 IN /\ r.status = result.status
                    /\ r.res = result.value
                    /\ Len(r.m.st) = Len(store)
                    /\ exeunt(r.m.st) = exeunt(store)
                    /\ theirs.val_store = mine.val_store
                    /\ DOMAIN theirs.typ_store = DOMAIN mine.typ_store
                    /\ \A n \in DOMAIN mine.typ_store \ {f.res.tvar} :
                          theirs.typ_store[n] = mine.typ_store[n]

C14_Witness ==
    /\ Evaluated("TApp")
    /\ lastOp.arg = TApp(PolyId, TInt)
    /\ result.value = Lambda("x", TVar("T"), Var("x"))
    /\ current(store).typ_store["T"] = TInt
    /\ eval(Machine(lastOp.pre, <<>>), TApp(PolyId, TBool), MaxDepth).m.st # store

\* C15: when the selected branch of a conditional starts, the snapshot is
\* the one the conditional started with: same depth, same value mapping and
\* type mapping in the current frame, whatever the condition bound.
C15_ConditionLeaksNothing ==
    Evaluated("If") =>
        LET e == lastOp.arg
            c == eval(Machine(enter(lastOp.pre), <<>>), e.cond, MaxDepth - 1)
            at == 2 + Len(c.m.log)
        IN (c.status = "ok" /\ IsBoolean(c.res)) =>
              /\ Len(evalLog) >= at
              /\ evalLog[at].expr = (IF c.res.b THEN e.branch_t ELSE e.branch_f)
              /\ Len(evalLog[at].st) = Len(lastOp.pre)
              /\ current(evalLog[at].st).val_store = current(lastOp.pre).val_store
              /\ current(evalLog[at].st).typ_store = current(lastOp.pre).typ_store
              /\ evalLog[at].st = lastOp.pre

C15_Witness ==
    /\ Evaluated("If")
    /\ lastOp.arg.cond \in LeakyConds
    /\ lastOp.arg.cond.tag = "Binop"
    /\ lastOp.arg.cond.lhs.tag = "EApp"
    /\ result.status = "ok"
    /\ \E i \in DOMAIN evalLog : Bound(current(evalLog[i].st), "T")
    /\ ~Bound(current(store), "T")

\* a tuple pattern met a value that is no tuple of its arity
Mismatch(b) ==
    /\ b.pat.tag = "PTuple"
    /\ b.exp.tag = "Tuple" => Len(b.exp.entries) # Len(b.pat.patterns)

\* C16: a call of bind_pat that matches a tuple pattern against a tuple of
\* another arity, or against a value that is no tuple, aborts the run at
\* bind_pat: the call binds nothing and nothing runs after it.
C16_MismatchAborts ==
    \A i \in DOMAIN bindLog :
        Mismatch(bindLog[i]) =>
            /\ result.status = "panic"
            /\ result.why = "bind_pat"
            /\ i = Len(bindLog)

\* C17: in let pat = boundExpr in body, boundExpr is evaluated first, on the
\* snapshot the let started with; only then is the frame entered and the
\* pattern bound to the value obtained.  A bound expression that is a name of
\* the pattern yields that name's binding in the enclosing frame, and the run
\* aborts as unbound when there is none.
C17_BoundExprBeforeFrame ==
    Evaluated("Let") =>
        LET e == lastOp.arg
            r1 == eval(Machine(lastOp.pre, <<>>), e.exp, MaxDepth - 1)
            at == Len(r1.m.binds) + 1
        IN /\ Len(evalLog) >= 2
           /\ evalLog[2] = [expr |-> e.exp, st |-> lastOp.pre]
           /\ r1.status # "ok" =>
                 /\ result.status = r1.status
                 /\ result.why = r1.why
                 /\ bindLog = r1.m.binds
           /\ r1.status = "ok" =>
                 /\ Len(bindLog) >= at
                 /\ bindLog[at] = [exp |-> r1.res, pat |-> e.pat,
                                   st |-> enter(r1.m.st)]
           /\ (e.exp.tag = "Var" /\ e.exp.id \in PatBindings(e.pat)) =>
                 IF get_val(current(lastOp.pre), e.exp.id).some
                 THEN /\ Len(bindLog) >= 1
                      /\ bindLog[1].exp =
                            get_val(current(lastOp.pre), e.exp.id).value
                 ELSE result.status = "panic" /\ result.why = "Var"

C17_Witness ==
    /\ Evaluated("Let")
    /\ lastOp.arg.pat.tag = "Binding"
    /\ lastOp.arg.exp = Var(lastOp.arg.pat.id)
    /\ get_val(current(lastOp.pre), lastOp.arg.pat.id).some
    /\ lastOp.arg.body = Var(lastOp.arg.pat.id)
    /\ result.status = "ok"
    /\ result.value = get_val(current(lastOp.pre), lastOp.arg.pat.id).value

\* C18: every call of eval that returns leaves the snapshot stack as deep as
\* it found it; no call of eval or bind_pat of an evaluation starts on a stack
\* shallower than the one the outermost eval started with; exeunt never
\* fails for want of an open frame; and the evaluation hands back a stack of
\* the depth it was given.
C18_ScopeStackBalance ==
    /\ \A i \in DOMAIN retLog : retLog[i].dout = retLog[i].din
    /\ \A i \in DOMAIN evalLog : Len(evalLog[i].st) >= Len(lastOp.pre)
    /\ \A i \in DOMAIN bindLog : Len(bindLog[i].st) >= Len(lastOp.pre)
    /\ result.why # "exeunt"
    /\ (ReturnedExpr \/ ReturnedDecl) => Len(store) = Len(lastOp.pre)

C18_Witness ==
    /\ ReturnedExpr
    /\ \E i \in DOMAIN retLog :
          /\ retLog[i].din = Len(lastOp.pre) + 1
          /\ retLog[i].expr.tag = "Let"
    /\ \E i \in DOMAIN evalLog : Len(evalLog[i].st) = Len(lastOp.pre) + 2
    /\ \E i \in DOMAIN retLog :
          /\ retLog[i].din = Len(lastOp.pre)
          /\ retLog[i].expr.tag = "Let"

\* C19: when a name is bound to a value in the current frame, it is bound to
\* the same value there after an evaluation of a let that binds this name has
\* returned; and let x = a in ((let x = b in x), x) evaluates to (b, a) for
\* all constants a and b.
C19_InnerScopeRestores ==
    (Evaluated("Let") /\ result.status = "ok") =>
        LET e == lastOp.arg
        IN /\ \A x \in PatBindings(e.pat) :
                 get_val(current(lastOp.pre), x).some =>
                    get_val(current(store), x) = get_val(current(lastOp.pre), x)
           /\ \A a \in Consts, b \in Consts :
                 e = ShadowPair(a, b) => result.value = Tuple(<<b, a>>)

\* snapshots on which a returned value is evaluated again
Stores == {store, lastOp.pre, SnapshotDefault}

\* C20: evaluating an expression that eval returned yields that expression
\* again and leaves the snapshot as it was, on whatever snapshot; so the
\* evaluation bind_pat performs on the value it is given, on the snapshot it is
\* given, yields that value, and the body of a let that binds a name starts
\* with the name bound to the value the bound expression evaluated to.
C20_EvalIdempotentOnResults ==
    /\ \A i \in DOMAIN retLog : \A st \in Stores :
          LET v == retLog[i].res
              r == eval(Machine(st, <<>>), v, MaxDepth)
          IN r.status = "ok" /\ r.res = v /\ r.m.st = st
    /\ \A i \in DOMAIN bindLog :
          LET b == bindLog[i]
              r == eval(Machine(b.st, <<>>), b.exp, MaxDepth)
          IN r.status = "ok" /\ r.res = b.exp /\ r.m.st = b.st
    /\ (Evaluated("Let") /\ lastOp.arg.pat.tag = "Binding") =>
          LET e == lastOp.arg
              r1 == eval(Machine(lastOp.pre, <<>>), e.exp, MaxDepth - 1)
              again == eval(Machine(enter(r1.m.st), <<>>), r1.res, MaxDepth - 2)
              at == 2 + Len(r1.m.log) + Len(again.m.log)
          IN r1.status = "ok" =>
                /\ Len(evalLog) >= at
                /\ evalLog[at].expr = e.body
                /\ get_val(current(evalLog[at].st), e.pat.id) =
                      [some |-> TRUE, value |-> r1.res]

C20_Witness ==
    /\ Evaluated("Let")
    /\ lastOp.arg.pat.tag = "Binding"
    /\ result.status = "ok"
    /\ \E i \in DOMAIN bindLog :
          /\ bindLog[i].pat = lastOp.arg.pat
          /\ bindLog[i].exp.tag = "Con"
    /\ \E i \in DOMAIN retLog :
          /\ retLog[i].res.tag = "Tuple"
          /\ Len(retLog[i].res.entries) = 2
          /\ retLog[i].res.entries[1] # retLog[i].res.entries[2]

====
